---- MODULE Spec2Model ----
(***************************************************************************)
(* A model of yeyo (src/yeyo/config.py, src/yeyo/cli.py): the YeyoConfig   *)
(* value with its version transitions and file registry, the JSON state    *)
(* file, the per-file search and replace, and the update sequence          *)
(* tag-before -> rewrite files -> persist -> commit-and-tag-after.         *)
(*                                                                         *)
(* Strings are sequences of one-character strings.  The placeholder        *)
(* "yeyo_version" of a match template and the jinja expression             *)
(* "{{ yeyo_version }}" of a tag or commit template are each one symbol.   *)
(* An Optional value is a sequence of length at most one: <<>> is None.    *)
(***************************************************************************)
EXTENDS Integers, Sequences, FiniteSets, TLC

VARIABLES
    yc,           \* the config object the caller holds (the receiver, old state)
    new_config,   \* the object the last transition returned (the candidate new state)
    op,           \* the last transition applied: [name, token, path, template]
    store,        \* the state files on disk: config path -> None or Some(JSON document)
    fs,           \* the text files on disk: path -> None or Some(sequence of lines)
    tags,         \* the git tags of the repository
    commits,      \* the git commits made, in order: [message, paths]
    untracked,    \* repo.untracked_files
    pc,           \* the position of the running update call
    call          \* the running update call's arguments and progress

vars == <<yc, new_config, op, store, fs, tags, commits, untracked, pc, call>>

-----------------------------------------------------------------------------
(* Bounds *)

\* version numbers of the initial states range over 0..MaxNum
MaxNum == 1
\* prerelease counters of the initial states range over 0..MaxCounter
MaxCounter == 1
\* a line of a tracked file is made of at most MaxPieces pieces
MaxPieces == 2
\* a project sees at most MaxCommands bump commands in a row
MaxCommands == 2

-----------------------------------------------------------------------------
(* Strings *)

None == <<>>
Some(x) == <<x>>

Digits == <<"0", "1", "2", "3", "4", "5", "6", "7", "8", "9">>
DigitSet == {Digits[i] : i \in 1..10}
Letters == {"a", "b", "c", "d", "e", "r", "v", "x"}
IsDigit(c) == c \in DigitSet
DigitVal(c) == (CHOOSE i \in 1..10 : Digits[i] = c) - 1

\* "%d" % n
RECURSIVE DecStr(_)
DecStr(n) == IF n < 10 THEN <<Digits[n + 1]>>
             ELSE DecStr(n \div 10) \o <<Digits[(n % 10) + 1]>>

\* int(s) of a string of digits
RECURSIVE IntOf(_)
IntOf(s) == IF s = <<>> THEN 0
            ELSE 10 * IntOf(SubSeq(s, 1, Len(s) - 1)) + DigitVal(s[Len(s)])

StartsWith(s, p) == Len(p) <= Len(s) /\ SubSeq(s, 1, Len(p)) = p
Drop(s, n) == SubSeq(s, n + 1, Len(s))
Contains(s, p) == \E i \in 0..(Len(s) - Len(p)) : SubSeq(s, i + 1, i + Len(p)) = p

\* the first index of character c in s, 0 when absent
IndexOf(s, c) == IF \E i \in 1..Len(s) : s[i] = c
                 THEN CHOOSE i \in 1..Len(s) : s[i] = c /\ \A j \in 1..(i - 1) : s[j] # c
                 ELSE 0

\* s.split(c)
RECURSIVE Split(_, _)
Split(s, c) == LET i == IndexOf(s, c)
               IN IF i = 0 THEN <<s>>
                  ELSE <<SubSeq(s, 1, i - 1)>> \o Split(Drop(s, i), c)

RECURSIVE Join(_, _)
Join(parts, c) == IF parts = <<>> THEN <<>>
                  ELSE IF Len(parts) = 1 THEN parts[1]
                  ELSE parts[1] \o <<c>> \o Join(Tail(parts), c)

\* str.replace(old, new): the occurrences of old found scanning left to right,
\* each scan resuming after the occurrence replaced
RECURSIVE PyReplaceScan(_, _, _)
PyReplaceScan(s, old, new) ==
    IF Len(s) < Len(old) THEN s
    ELSE IF StartsWith(s, old) THEN new \o PyReplaceScan(Drop(s, Len(old)), old, new)
    ELSE <<Head(s)>> \o PyReplaceScan(Tail(s), old, new)

RECURSIVE Interleave(_, _)
Interleave(s, new) == IF s = <<>> THEN new
                      ELSE new \o <<Head(s)>> \o Interleave(Tail(s), new)

PyReplace(s, old, new) == IF old = <<>> THEN Interleave(s, new)
                          ELSE PyReplaceScan(s, old, new)

-----------------------------------------------------------------------------
(* The semver library, as config.py calls it *)

IsAlnumHyphen(c) == c \in DigitSet \cup Letters \cup {"-"}
\* (?:0|[1-9][0-9]*)
NumericId(s) == /\ s # <<>>
                /\ \A i \in 1..Len(s) : IsDigit(s[i])
                /\ (s = <<"0">> \/ s[1] # "0")
\* (?:0|[1-9A-Za-z-][0-9A-Za-z-]*)
PrereleaseId(s) == /\ s # <<>>
                   /\ \A i \in 1..Len(s) : IsAlnumHyphen(s[i])
                   /\ (s = <<"0">> \/ s[1] # "0")
\* [0-9A-Za-z-]+
BuildId(s) == s # <<>> /\ \A i \in 1..Len(s) : IsAlnumHyphen(s[i])

VersionInfo(major, minor, patch, prerelease, build) ==
    [major |-> major, minor |-> minor, patch |-> patch,
     prerelease |-> prerelease, build |-> build]

\* what stands for the ValueError of a string that is no version
ParseError == VersionInfo(-1, -1, -1, None, None)

\* semver.format_version
format_version(major, minor, patch, prerelease, build) ==
    DecStr(major) \o <<".">> \o DecStr(minor) \o <<".">> \o DecStr(patch)
    \o (IF prerelease # None THEN <<"-">> \o prerelease[1] ELSE <<>>)
    \o (IF build # None THEN <<"+">> \o build[1] ELSE <<>>)

\* semver.parse_version_info: the match of the version regex
parse_version_info(s) ==
    LET plus  == IndexOf(s, "+")
        head  == IF plus = 0 THEN s ELSE SubSeq(s, 1, plus - 1)
        build == IF plus = 0 THEN None ELSE Some(Drop(s, plus))
        dash  == IndexOf(head, "-")
        core  == IF dash = 0 THEN head ELSE SubSeq(head, 1, dash - 1)
        pre   == IF dash = 0 THEN None ELSE Some(Drop(head, dash))
        nums  == Split(core, ".")
        ok    == /\ Len(nums) = 3
                 /\ \A i \in 1..Len(nums) : NumericId(nums[i])
                 /\ pre # None =>
                      LET ids == Split(pre[1], ".")
                      IN \A i \in 1..Len(ids) : PrereleaseId(ids[i])
                 /\ build # None =>
                      LET ids == Split(build[1], ".")
                      IN \A i \in 1..Len(ids) : BuildId(ids[i])
    IN IF ok THEN VersionInfo(IntOf(nums[1]), IntOf(nums[2]), IntOf(nums[3]), pre, build)
       ELSE ParseError

Max(a, b) == IF a >= b THEN a ELSE b

\* semver._increment_string: the last run of digits of the string, plus one
\* an increment that returns its argument
increment_string_same(s) == s

increment_string(s) ==
    IF \A i \in 1..Len(s) : ~IsDigit(s[i]) THEN s
    ELSE LET end   == CHOOSE i \in 1..Len(s) :
                          IsDigit(s[i]) /\ \A j \in (i + 1)..Len(s) : ~IsDigit(s[j])
             start == CHOOSE i \in 1..end :
                          /\ \A j \in i..end : IsDigit(s[j])
                          /\ (i = 1 \/ ~IsDigit(s[i - 1]))
             next  == DecStr(IntOf(SubSeq(s, start, end)) + 1)
         IN SubSeq(s, 1, Max(end - Len(next), start - 1)) \o next
            \o SubSeq(s, end + 1, Len(s))

semver_bump_major(version) ==
    LET v == parse_version_info(version)
    IN format_version(v.major + 1, 0, 0, None, None)

semver_bump_minor(version) ==
    LET v == parse_version_info(version)
    IN format_version(v.major, v.minor + 1, 0, None, None)

semver_bump_patch(version) ==
    LET v == parse_version_info(version)
    IN format_version(v.major, v.minor, v.patch + 1, None, None)

\* semver.bump_prerelease(version, token): token is a string
semver_bump_prerelease(version, token) ==
    LET v == parse_version_info(version)
        p == IF v.prerelease # None THEN v.prerelease[1] ELSE token \o <<".", "0">>
    IN format_version(v.major, v.minor, v.patch, Some(increment_string(p)), None)

semver_finalize_version(version) ==
    LET v == parse_version_info(version)
    IN format_version(v.major, v.minor, v.patch, None, None)

-----------------------------------------------------------------------------
(* config.py: constants, paths, FileVersion *)

YEYO_VERSION_TEMPLATE == <<"yeyo_version">>
DEFAULT_TAG_TEMPLATE == <<"{{ yeyo_version }}">>
DEFAULT_COMMIT_TEMPLATE == <<"{{ yeyo_version }}">>

\* A Path is the sequence of its components, each a string; str(Path) joins them
\* with "/"
PathStr(p) == IF p = <<>> THEN <<".">> ELSE Join(p, "/")
\* Path(str): the components between "/", the empty ones and "." dropped
RECURSIVE PathComponents(_)
PathComponents(parts) ==
    IF parts = <<>> THEN <<>>
    ELSE IF Head(parts) \in {<<>>, <<".">>} THEN PathComponents(Tail(parts))
    ELSE <<Head(parts)>> \o PathComponents(Tail(parts))
PathOf(s) == PathComponents(Split(s, "/"))

DEFAULT_CONFIG_PATH == PathOf(<<".yeyo.json">>)

FileVersion(file_path, match_template) ==
    [file_path |-> file_path, match_template |-> match_template]

\* str(VersionInfo)
VersionStr(v) == format_version(v.major, v.minor, v.patch, v.prerelease, v.build)

\* str.replace(old, new, 1)
RECURSIVE PyReplaceFirst(_, _, _)
PyReplaceFirst(s, old, new) ==
    IF Len(s) < Len(old) THEN s
    ELSE IF StartsWith(s, old) THEN new \o Drop(s, Len(old))
    ELSE <<Head(s)>> \o PyReplaceFirst(Tail(s), old, new)

\* a replace that stops after the first occurrence in the line
FileVersionReplace_first_only(fv, s, v1, v2) ==
    LET search_string  == PyReplace(fv.match_template, YEYO_VERSION_TEMPLATE, VersionStr(v1))
        replace_string == PyReplace(fv.match_template, YEYO_VERSION_TEMPLATE, VersionStr(v2))
    IN PyReplaceFirst(s, search_string, replace_string)

\* FileVersion.replace
FileVersionReplace(fv, s, v1, v2) ==
    LET search_string  == PyReplace(fv.match_template, YEYO_VERSION_TEMPLATE, VersionStr(v1))
        replace_string == PyReplace(fv.match_template, YEYO_VERSION_TEMPLATE, VersionStr(v2))
    IN PyReplace(s, search_string, replace_string)

-----------------------------------------------------------------------------
(* config.py: YeyoConfig *)

YeyoConfig(version, tag_template, commit_template, files) ==
    [version |-> version, tag_template |-> tag_template,
     commit_template |-> commit_template, files |-> files]

\* YeyoConfig.__eq__
ConfigEq(a, b) == a.files = b.files /\ a.version = b.version

version_string(c) ==
    format_version(c.version.major, c.version.minor, c.version.patch,
                   c.version.prerelease, c.version.build)

\* a removal of the binding of file_path with the default template only
remove_file_default_template(c, file_path) ==
    YeyoConfig(c.version, c.tag_template, c.commit_template,
               c.files \ {FileVersion(file_path, YEYO_VERSION_TEMPLATE)})

remove_file(c, file_path) ==
    YeyoConfig(c.version, c.tag_template, c.commit_template,
               {fv \in c.files : fv.file_path # file_path})

\* no copy: the name given to the same set object
copy_alias(obj) == obj

\* copy.copy(obj): a new set object, named file_copy in add_file
copy_copy(obj) == "file_copy"

\* the set objects at the end of add_file: self is the set of the receiver, result
\* the set handed to the config returned; the binding is added in place to file_copy
add_file_objects(c, file_path, match_template) ==
    LET file_copy == copy_copy("self.files")
        objects   == [o \in {"self.files", "file_copy"} |-> c.files]
        added     == [objects EXCEPT ![file_copy] =
                         @ \cup {FileVersion(file_path, match_template)}]
    IN [self |-> added["self.files"], result |-> added[file_copy]]

add_file(c, file_path, match_template) ==
    YeyoConfig(c.version, c.tag_template, c.commit_template,
               add_file_objects(c, file_path, match_template).result)

\* jinja2: Template(t).render(yeyo_version=v)
Render(template, v) == PyReplace(template, <<"{{ yeyo_version }}">>, v)
\* a tag named by the template as it is written
get_templated_tag_unrendered(c) == c.tag_template
get_templated_tag(c) == Render(c.tag_template, version_string(c))
get_templated_commit(c) == Render(c.commit_template, version_string(c))

RECURSIVE AddFiles(_, _)
AddFiles(c, fvs) ==
    IF fvs = {} THEN c
    ELSE LET f == CHOOSE x \in fvs : TRUE
         IN AddFiles(add_file(c, f.file_path, f.match_template), fvs \ {f})

\* a constructor that falls back to the default templates
from_version_string_default_templates(vs, tag_template, commit_template, file_versions) ==
    AddFiles(YeyoConfig(parse_version_info(vs), DEFAULT_TAG_TEMPLATE,
                        DEFAULT_COMMIT_TEMPLATE, {}),
             file_versions)

from_version_string(vs, tag_template, commit_template, file_versions) ==
    AddFiles(YeyoConfig(parse_version_info(vs), tag_template, commit_template, {}),
             file_versions)

bump_major(c) ==
    from_version_string(semver_bump_major(version_string(c)),
                        c.tag_template, c.commit_template, c.files)

bump_minor(c) ==
    from_version_string(semver_bump_minor(version_string(c)),
                        c.tag_template, c.commit_template, c.files)

\* a patch bump that only finalizes a version that has a prerelease
bump_patch_to_release(c) ==
    from_version_string(
        IF c.version.prerelease # None THEN semver_finalize_version(version_string(c))
        ELSE semver_bump_patch(version_string(c)),
        c.tag_template, c.commit_template, c.files)

\* a patch bump that calls the finalize function of the library
bump_patch_as_finalize(c) ==
    from_version_string(semver_finalize_version(version_string(c)),
                        c.tag_template, c.commit_template, c.files)

bump_patch(c) ==
    from_version_string(semver_bump_patch(version_string(c)),
                        c.tag_template, c.commit_template, c.files)

\* a finalize that keeps the build
finalize_keeps_build(c) ==
    LET v == parse_version_info(version_string(c))
    IN from_version_string(format_version(v.major, v.minor, v.patch, None, v.build),
                           c.tag_template, c.commit_template, c.files)

finalize(c) ==
    from_version_string(semver_finalize_version(version_string(c)),
                        c.tag_template, c.commit_template, c.files)

\* a prerelease bump that does not finalize before it applies a given token
bump_prerelease_no_finalize(c, prerelease_token) ==
    from_version_string(
        semver_bump_prerelease(version_string(c),
                               IF prerelease_token = None THEN <<"d", "e", "v">>
                               ELSE prerelease_token[1]),
        c.tag_template, c.commit_template, c.files)

\* prerelease_token is Optional: None or Some(token)
bump_prerelease(c, prerelease_token) ==
    IF c.version.prerelease = None
    THEN from_version_string(semver_bump_prerelease(version_string(c), <<"d", "e", "v">>),
                             c.tag_template, c.commit_template, c.files)
    ELSE IF prerelease_token = None
    THEN from_version_string(
             semver_bump_prerelease(version_string(c), c.version.prerelease[1]),
             c.tag_template, c.commit_template, c.files)
    ELSE from_version_string(
             semver_bump_prerelease(version_string(finalize(c)), prerelease_token[1]),
             c.tag_template, c.commit_template, c.files)

-----------------------------------------------------------------------------
(* config.py: the JSON state file *)

\* the sequences that list each element of a set once
Orders(S) == {q \in [1..Cardinality(S) -> S] : \A x \in S : \E i \in DOMAIN q : q[i] = x}

\* an encoder that writes the version without its build
Encode_without_build(c, order) ==
    [files |-> [i \in DOMAIN order |->
                   [file_path |-> PathStr(order[i].file_path),
                    match_template |-> order[i].match_template]],
     version |-> format_version(c.version.major, c.version.minor, c.version.patch,
                                c.version.prerelease, None),
     tag_template |-> c.tag_template,
     commit_template |-> c.commit_template]

\* YeyoConfigEncoder.default: files is listed in the order the set iterates
Encode(c, order) ==
    [files |-> [i \in DOMAIN order |->
                   [file_path |-> PathStr(order[i].file_path),
                    match_template |-> order[i].match_template]],
     version |-> version_string(c),
     tag_template |-> c.tag_template,
     commit_template |-> c.commit_template]

\* YeyoConfigDecoder.object_hook, on the file objects and then on the document
Decode(doc) ==
    YeyoConfig(parse_version_info(doc.version), doc.tag_template, doc.commit_template,
               {FileVersion(PathOf(doc.files[i].file_path), doc.files[i].match_template) :
                    i \in DOMAIN doc.files})

-----------------------------------------------------------------------------
(* The inputs *)

\* cli.py: click.Choice(["dev", "a", "b", "rc"])
Tokens == {<<"d", "e", "v">>, <<"a">>, <<"b">>, <<"r", "c">>}
OptTokens == {None} \cup {Some(t) : t \in Tokens}

\* the numbers of an initial version: small ones, and 9, whose successor has two digits
InitNums == (0..MaxNum) \cup {9}
InitCounters == (1..MaxCounter) \cup {9}
InitPrereleases ==
    {None, Some(<<"r", "c">>)}
    \cup {Some(t \o <<".">> \o DecStr(n)) : t \in {<<"d", "e", "v">>, <<"r", "c">>},
                                             n \in InitCounters}
InitBuilds == {None, Some(<<"x", ".", "1">>)}
InitVersions ==
    {VersionInfo(ma, mi, pa, pre, bu) :
        ma \in InitNums, mi \in InitNums, pa \in InitNums,
        pre \in InitPrereleases, bu \in InitBuilds}

VersionFile == PathOf(<<"VERSION">>)
SetupFile == PathOf(<<"src", "/", "setup.py">>)
Paths == {VersionFile, SetupFile}
\* match templates: the default one (cli.py: --template_string) and one with a prefix
PrefixTemplate == <<"=">> \o YEYO_VERSION_TEMPLATE
Templates == {YEYO_VERSION_TEMPLATE, PrefixTemplate}
ConfigPaths == {DEFAULT_CONFIG_PATH}

NoOp == [name |-> "init", prev |-> "init", token |-> None,
         path |-> <<>>, template |-> <<>>, n |-> 0, prev_path |-> <<>>]
Did(name) == [NoOp EXCEPT !.name = name, !.prev = op.name, !.prev_path = op.path]

\* before is the disk and the repository as update found them, at the step that raised;
\* kind is the bump command of a project that sees several; rerun says that the command
\* is run again after a crash, expected is the files as the crashed run left them,
\* argv the command line the kind was parsed from
NoCall == [dryrun |-> FALSE, git_tag_before |-> FALSE, git_tag_after |-> FALSE,
           config_path |-> DEFAULT_CONFIG_PATH, todo |-> {}, out |-> <<>>,
           error |-> "none", at |-> "none", before |-> <<>>,
           kind |-> <<>>, rerun |-> FALSE, expected |-> <<>>, argv |-> <<>>]

\* the variables of the project on disk and of the update call
project == <<store, fs, tags, commits, untracked, pc, call>>

NoProject ==
    /\ store = [p \in ConfigPaths |-> None]
    /\ fs = [p \in Paths |-> None]
    /\ tags = {}
    /\ commits = <<>>
    /\ untracked = {}
    /\ pc = "idle"
    /\ call = NoCall

-----------------------------------------------------------------------------
(* SpecVersion: the version transitions of a YeyoConfig.  The caller holds    *)
(* new_config; each transition is called on it, yc becomes that receiver and  *)
(* new_config the object returned.  A run is at most two transitions long.    *)

InitVersion ==
    /\ \E v \in InitVersions :
          yc = YeyoConfig(v, DEFAULT_TAG_TEMPLATE, DEFAULT_COMMIT_TEMPLATE,
                          {FileVersion(VersionFile, YEYO_VERSION_TEMPLATE)})
    /\ new_config = yc
    /\ op = NoOp
    /\ NoProject

Transition(name, result) ==
    /\ op.prev = "init"
    /\ yc' = new_config
    /\ new_config' = result
    /\ op' = Did(name)
    /\ UNCHANGED project

BumpMajor == Transition("bump_major", bump_major(new_config))
BumpMinor == Transition("bump_minor", bump_minor(new_config))
BumpPatch == Transition("bump_patch", bump_patch(new_config))
Finalize == Transition("finalize", finalize(new_config))
BumpPrerelease ==
    \E token \in OptTokens :
        /\ op.prev = "init"
        /\ yc' = new_config
        /\ new_config' = bump_prerelease(new_config, token)
        /\ op' = [Did("bump_prerelease") EXCEPT !.token = token]
        /\ UNCHANGED project

NextVersion == BumpMajor \/ BumpMinor \/ BumpPatch \/ BumpPrerelease \/ Finalize

SpecVersion == InitVersion /\ [][NextVersion]_vars

-----------------------------------------------------------------------------
(* Properties of the version transitions (SpecVersion) *)

Dev == <<"d", "e", "v">>
NoDigit(s) == \A i \in 1..Len(s) : ~IsDigit(s[i])
\* a prerelease of the form T.N: a token without digits, a dot, a number
IsTokenCounter(p) ==
    LET ids == Split(p, ".")
    IN Len(ids) = 2 /\ ids[1] # <<>> /\ NoDigit(ids[1]) /\ NumericId(ids[2])
TokenOf(p) == Split(p, ".")[1]
CounterOf(p) == IntOf(Split(p, ".")[2])
TokenCounter(tok, n) == tok \o <<".">> \o DecStr(n)
Release(v) == VersionInfo(v.major, v.minor, v.patch, None, None)
WithPrerelease(v, p) == VersionInfo(v.major, v.minor, v.patch, Some(p), None)

\* C3: prerelease sequencing.  bump_prerelease() without a token takes X.Y.Z to
\* X.Y.Z-dev.1 and X.Y.Z-T.N to X.Y.Z-T.(N+1); bump_prerelease(U) with a token U
\* other than T takes X.Y.Z-T.N to X.Y.Z-U.1.
C3_PrereleaseSequencing ==
    op.name = "bump_prerelease" =>
        LET v == yc.version
            n == new_config.version
        IN /\ (v.prerelease = None /\ op.token = None)
                => n = WithPrerelease(v, TokenCounter(Dev, 1))
           /\ (v.prerelease # None /\ IsTokenCounter(v.prerelease[1]) /\ op.token = None)
                => n = WithPrerelease(v, TokenCounter(TokenOf(v.prerelease[1]),
                                                      CounterOf(v.prerelease[1]) + 1))
           /\ (/\ v.prerelease # None
               /\ IsTokenCounter(v.prerelease[1])
               /\ op.token # None
               /\ op.token[1] # TokenOf(v.prerelease[1]))
                => n = WithPrerelease(v, TokenCounter(op.token[1], 1))

\* the test's sequence: X.Y.Z -> X.Y.Z-dev.1 -> X.Y.Z-dev.2 is behind this state, and
\* a token "a" was then given: two bumps in a row, the second with another token
C3_Witness ==
    /\ op.name = "bump_prerelease" /\ op.prev = "bump_prerelease"
    /\ op.token = Some(<<"a">>)
    /\ yc.version.prerelease = Some(TokenCounter(Dev, 2))
    /\ new_config.version.prerelease = Some(TokenCounter(<<"a">>, 1))

\* C4: on a version without prerelease, bump_prerelease(token) sets the prerelease to
\* <token>.1 when a token is given and to dev.1 when it is omitted.
C4_TokenOnRelease ==
    (op.name = "bump_prerelease" /\ yc.version.prerelease = None) =>
        new_config.version.prerelease =
            Some(TokenCounter(IF op.token = None THEN Dev ELSE op.token[1], 1))

\* C5: bump_major yields (major+1, 0, 0), bump_minor (major, minor+1, 0) and
\* bump_patch (major, minor, patch+1), each without prerelease and build, whatever
\* the prerelease and build of the receiver.
C5_BumpTriple ==
    LET v == yc.version
        n == new_config.version
    IN /\ op.name = "bump_major" => n = VersionInfo(v.major + 1, 0, 0, None, None)
       /\ op.name = "bump_minor" => n = VersionInfo(v.major, v.minor + 1, 0, None, None)
       /\ op.name = "bump_patch"
            => n = VersionInfo(v.major, v.minor, v.patch + 1, None, None)

\* bump_patch on a version that has a prerelease and a build
C5_Witness ==
    /\ op.name = "bump_patch"
    /\ yc.version.prerelease = Some(TokenCounter(Dev, 1))
    /\ yc.version.build # None
    /\ new_config.version = VersionInfo(yc.version.major, yc.version.minor,
                                        yc.version.patch + 1, None, None)

\* the order of two characters of an identifier, by code point
CharOrder == <<"-", "0", "1", "2", "3", "4", "5", "6", "7", "8", "9",
               "a", "b", "c", "d", "e", "r", "v", "x">>
CharRank(c) == CHOOSE i \in 1..Len(CharOrder) : CharOrder[i] = c
Cmp(a, b) == IF a < b THEN -1 ELSE IF a > b THEN 1 ELSE 0
RECURSIVE StrCmp(_, _)
StrCmp(a, b) ==
    IF a = <<>> \/ b = <<>> THEN Cmp(Len(a), Len(b))
    ELSE IF Head(a) # Head(b) THEN Cmp(CharRank(Head(a)), CharRank(Head(b)))
    ELSE StrCmp(Tail(a), Tail(b))
IsNumber(s) == s # <<>> /\ \A i \in 1..Len(s) : IsDigit(s[i])
\* two identifiers of a prerelease: numbers by value, a number below a word,
\* words as strings
IdCmp(a, b) ==
    IF IsNumber(a) /\ IsNumber(b) THEN Cmp(IntOf(a), IntOf(b))
    ELSE IF IsNumber(a) THEN -1
    ELSE IF IsNumber(b) THEN 1
    ELSE StrCmp(a, b)
RECURSIVE IdsCmp(_, _)
IdsCmp(as, bs) ==
    IF as = <<>> \/ bs = <<>> THEN Cmp(Len(as), Len(bs))
    ELSE IF IdCmp(Head(as), Head(bs)) # 0 THEN IdCmp(Head(as), Head(bs))
    ELSE IdsCmp(Tail(as), Tail(bs))
\* semantic-version precedence: the triple, then a prerelease below its release,
\* then the prerelease identifiers left to right; the build is not looked at
Precedence(v, w) ==
    IF v.major # w.major THEN Cmp(v.major, w.major)
    ELSE IF v.minor # w.minor THEN Cmp(v.minor, w.minor)
    ELSE IF v.patch # w.patch THEN Cmp(v.patch, w.patch)
    ELSE IF v.prerelease = None /\ w.prerelease = None THEN 0
    ELSE IF v.prerelease = None THEN 1
    ELSE IF w.prerelease = None THEN -1
    ELSE IdsCmp(Split(v.prerelease[1], "."), Split(w.prerelease[1], "."))

\* C6: bump_major(v), bump_minor(v) and bump_patch(v) are each strictly greater than
\* v under semantic-version precedence.
C6_BumpMonotonic ==
    op.name \in {"bump_major", "bump_minor", "bump_patch"} =>
        Precedence(new_config.version, yc.version) = 1

\* a patch bump of a release version, where only the patch number decides
C6_Witness ==
    /\ op.name = "bump_patch"
    /\ yc.version.prerelease = None
    /\ Precedence(new_config.version, yc.version) = 1

\* C7: finalize drops prerelease and build and keeps major.minor.patch, and a second
\* finalize returns what the first returned.
C7_Finalize ==
    op.name = "finalize" =>
        /\ new_config.version = Release(yc.version)
        /\ op.prev = "finalize" => ConfigEq(new_config, yc) /\ new_config = yc

\* finalize applied to the result of finalize
C7_Witness ==
    /\ op.name = "finalize" /\ op.prev = "finalize"
    /\ new_config.version = yc.version
    /\ yc.version.prerelease = None /\ yc.version.build = None

-----------------------------------------------------------------------------
(* SpecFiles: the file registry and the JSON state file.  A run is at most two  *)
(* transitions, then to_json and from_json of the file written when the        *)
(* transitions were registry ones.  In each transition yc becomes the receiver *)
(* as the call left it.                                                        *)

Bindings == {FileVersion(p, m) : p \in Paths, m \in Templates}
\* the registries in which no path has two bindings
KeyedRegistries ==
    {r \in SUBSET Bindings : \A a \in r, b \in r : a.file_path = b.file_path => a = b}
\* the versions of the initial states of SpecFiles: the three numbers alike
DiagonalVersions == {v \in InitVersions : v.major = v.minor /\ v.minor = v.patch}
PrefixTagTemplate == <<"v">> \o DEFAULT_TAG_TEMPLATE
BumpCommitTemplate == <<"b", "u", "m", "p", " ">> \o DEFAULT_COMMIT_TEMPLATE

InitFiles ==
    /\ \E v \in DiagonalVersions, r \in KeyedRegistries,
          t \in {DEFAULT_TAG_TEMPLATE, PrefixTagTemplate} :
          yc = YeyoConfig(v, t, IF t = DEFAULT_TAG_TEMPLATE THEN DEFAULT_COMMIT_TEMPLATE
                                ELSE BumpCommitTemplate, r)
    /\ new_config = yc
    /\ op = NoOp
    /\ NoProject

RegistryOpen == op.prev = "init" /\ op.name \in {"init", "add_file", "remove_file"}

AddFile ==
    \E p \in Paths, m \in Templates :
        /\ RegistryOpen
        /\ yc' = [new_config EXCEPT !.files = add_file_objects(new_config, p, m).self]
        /\ new_config' = add_file(new_config, p, m)
        /\ op' = [Did("add_file") EXCEPT !.path = p, !.template = m]
        /\ UNCHANGED project

RemoveFile ==
    \E p \in Paths :
        /\ RegistryOpen
        /\ yc' = new_config
        /\ new_config' = remove_file(new_config, p)
        /\ op' = [Did("remove_file") EXCEPT !.path = p]
        /\ UNCHANGED project

\* YeyoConfig.to_json
ToJson ==
    \E p \in ConfigPaths, order \in Orders(new_config.files) :
        /\ op.name \in {"init", "add_file", "remove_file"}
        /\ store' = [store EXCEPT ![p] = Some(Encode(new_config, order))]
        /\ yc' = new_config
        /\ op' = [Did("to_json") EXCEPT !.path = p]
        /\ UNCHANGED <<new_config, fs, tags, commits, untracked, pc, call>>

\* YeyoConfig.from_json
FromJson ==
    \E p \in ConfigPaths :
        /\ op.name = "to_json" /\ op.path = p
        /\ store[p] # None
        /\ yc' = new_config
        /\ new_config' = Decode(store[p][1])
        /\ op' = [Did("from_json") EXCEPT !.path = p]
        /\ UNCHANGED project

NextFiles ==
    \/ AddFile \/ RemoveFile \/ ToJson \/ FromJson
    \/ BumpMajor \/ BumpMinor \/ BumpPatch \/ BumpPrerelease \/ Finalize

SpecFiles == InitFiles /\ [][NextFiles]_vars

\* C2: the registry holds at most one binding per path; add_file(p, t2) on a registry
\* that binds p leaves exactly one binding for p, with template t2.
C2_OneBindingPerPath ==
    /\ \A a \in new_config.files, b \in new_config.files :
          a.file_path = b.file_path => a = b
    /\ op.name = "add_file" =>
          {fv \in new_config.files : fv.file_path = op.path}
              = {FileVersion(op.path, op.template)}

\* C8: from_json of the file written by to_json(s) yields a state equal to s: the same
\* version and the same set of file bindings.
C8_RoundTrip ==
    op.name = "from_json" =>
        /\ ConfigEq(new_config, yc)
        /\ new_config.version = yc.version
        /\ new_config.files = yc.files

\* a state with a prerelease, a build, a nested path and two bindings, written and
\* loaded
C8_Witness ==
    /\ op.name = "from_json" /\ op.prev = "to_json"
    /\ yc.version.prerelease # None /\ yc.version.build # None
    /\ Cardinality(yc.files) >= 2
    /\ \E fv \in yc.files : fv.file_path = SetupFile /\ fv.match_template = PrefixTemplate
    /\ new_config = yc

-----------------------------------------------------------------------------
(* Spec: one bump command on a project: the state is loaded, the version bumped *)
(* and update runs tag-before, the rewrite of each tracked file, persist and    *)
(* tag-after.                                                                   *)

\* cli.py: STARTING_VERSION
STARTING_VERSION == <<"0", ".", "0", ".", "0", "-", "d", "e", "v", ".", "1">>
ProjectVersions ==
    {parse_version_info(STARTING_VERSION),
     parse_version_info(semver_finalize_version(STARTING_VERSION))}

VersionBinding == FileVersion(VersionFile, YEYO_VERSION_TEMPLATE)
ProjectRegistries ==
    {{}, {VersionBinding},
     {VersionBinding, FileVersion(SetupFile, PrefixTemplate)},
     {VersionBinding, FileVersion(VersionFile, PrefixTemplate)}}

NL == <<"\n">>
\* the lines of the version file of a project at version v: up to MaxPieces pieces,
\* each the version, the version without its first character, or "="
Pieces(v) == {VersionStr(v), Tail(VersionStr(v)), <<"=">>}
RECURSIVE LinesOf(_, _)
LinesOf(v, n) ==
    IF n = 0 THEN {<<>>}
    ELSE LinesOf(v, n - 1) \cup {l \o q : l \in LinesOf(v, n - 1), q \in Pieces(v)}
VersionFileContents(v) == {<<l \o NL, <<"x">>>> : l \in LinesOf(v, MaxPieces)}
SetupFileContent(v) == <<<<"x">> \o NL, <<"=">> \o VersionStr(v) \o NL>>

OtherFile == PathOf(<<"notes.txt">>)

\* the tags of the repository before the command: none, or one for each version the
\* project has had
TagOf(v) == Render(DEFAULT_TAG_TEMPLATE, VersionStr(v))
ProjectTags == {{}, {TagOf(v) : v \in ProjectVersions}}

\* repo.untracked_files before the command: none, a file the project does not manage,
\* or the state file and the version file, written and not yet added
ProjectUntracked == {{}, {OtherFile}, {DEFAULT_CONFIG_PATH, VersionFile}}

UpdateTokens == {None, Some(<<"a">>), Some(<<"d", "e", "v">>)}
Kinds ==
    [name : {"major", "minor", "patch"}, prerel : BOOLEAN, token : {None}]
    \cup [name : {"prerelease"}, prerel : {TRUE}, token : UpdateTokens]
    \cup [name : {"finalize"}, prerel : {FALSE}, token : {None}]

Init ==
    /\ \E v \in ProjectVersions, r \in ProjectRegistries :
          /\ yc = YeyoConfig(v, DEFAULT_TAG_TEMPLATE, DEFAULT_COMMIT_TEMPLATE, r)
          /\ \E order \in Orders(r) :
                store = [p \in ConfigPaths |-> Some(Encode(yc, order))]
          /\ \E content \in VersionFileContents(v),
                setup \in {None, Some(SetupFileContent(v))} :
                fs = [p \in Paths |-> IF p = VersionFile THEN Some(content) ELSE setup]
    /\ new_config = yc
    /\ op = NoOp
    /\ tags \in ProjectTags
    /\ commits = <<>>
    /\ untracked \in ProjectUntracked
    /\ pc = "idle"
    /\ call = NoCall

\* the disk and the repository
Disk == [fs |-> fs, store |-> store, tags |-> tags, commits |-> commits,
         untracked |-> untracked]

\* cli.py: the body of bump major, minor, patch, prerelease and finalize
Bumped(c, kind) ==
    LET bumped == CASE kind.name = "major" -> bump_major(c)
                    [] kind.name = "minor" -> bump_minor(c)
                    [] kind.name = "patch" -> bump_patch(c)
                    [] kind.name = "prerelease" -> bump_prerelease(c, kind.token)
                    [] kind.name = "finalize" -> finalize(c)
    IN IF kind.name \in {"major", "minor", "patch"} /\ kind.prerel
       THEN bump_prerelease(bumped, None)
       ELSE bumped

\* a bump command: the state file is loaded, the version bumped, update is entered
Bump ==
    \E kind \in Kinds, dryrun \in BOOLEAN, tag_before \in BOOLEAN, tag_after \in BOOLEAN :
        /\ pc = "idle"
        /\ store[DEFAULT_CONFIG_PATH] # None
        /\ \E old \in {Decode(store[DEFAULT_CONFIG_PATH][1])} :
              \E new \in {Bumped(old, kind)} :
                 /\ yc' = old
                 /\ new_config' = new
                 /\ call' = [NoCall EXCEPT !.dryrun = dryrun,
                                           !.git_tag_before = tag_before,
                                           !.git_tag_after = tag_after,
                                           !.todo = new.files,
                                           !.before = Disk]
        /\ op' = [Did(kind.name) EXCEPT !.token = kind.token]
        /\ pc' = "tag_before"
        /\ UNCHANGED <<store, fs, tags, commits, untracked>>

\* an update in which every step runs although an earlier one raised
Fail_and_continue(error) ==
    /\ pc' = IF pc = "tag_after" THEN "done" ELSE "persist"
    /\ call' = [call EXCEPT !.error = error, !.at = pc]

\* an exception leaves update: no later statement of it runs
Fail(error) ==
    /\ pc' = "failed"
    /\ call' = [call EXCEPT !.error = error, !.at = pc]

AfterRewrite(todo) == IF todo = {} THEN "persist" ELSE "rewrite"

\* update: if git_tag_before and not dryrun: self._tag_repo()
TagBefore ==
    /\ pc = "tag_before"
    /\ IF call.git_tag_before /\ ~call.dryrun
       THEN LET tag_string == get_templated_tag(new_config)
            IN IF tag_string \in tags
               THEN Fail("VcsError") /\ UNCHANGED tags
               ELSE /\ tags' = tags \cup {tag_string}
                    /\ pc' = AfterRewrite(call.todo)
                    /\ UNCHANGED call
       ELSE /\ pc' = AfterRewrite(call.todo)
            /\ UNCHANGED <<tags, call>>
    /\ UNCHANGED <<yc, new_config, op, store, fs, commits, untracked>>

\* an in-place rewrite whatever dryrun says
Inplace_always(dryrun) == TRUE

\* a rewrite that never writes the file back
Inplace_never(dryrun) == FALSE

\* _update_files: inplace = not dryrun
Inplace(dryrun) == ~dryrun

\* the lines _update_files prints in a dry run
RECURSIVE Audit(_, _, _)
Audit(fv, lines, old) ==
    IF lines = <<>> THEN <<>>
    ELSE (IF Contains(Head(lines), version_string(old))
          THEN <<[file |-> fv.file_path, line |-> Head(lines),
                  new_line |-> FileVersionReplace(fv, Head(lines), old.version,
                                                  new_config.version)]>>
          ELSE <<>>)
         \o Audit(fv, Tail(lines), old)

\* _update_files, one binding of self.files: every line of the file is replaced
RewriteFile ==
    \E fv \in call.todo :
        /\ pc = "rewrite"
        /\ IF fs[fv.file_path] = None
           THEN Fail("FileNotFoundError") /\ UNCHANGED fs
           ELSE LET lines == fs[fv.file_path][1]
                    todo  == call.todo \ {fv}
                IN /\ pc' = AfterRewrite(todo)
                   /\ IF Inplace(call.dryrun)
                      THEN /\ fs' = [fs EXCEPT ![fv.file_path] =
                                  Some([i \in DOMAIN lines |->
                                          FileVersionReplace(fv, lines[i], yc.version,
                                                             new_config.version)])]
                           /\ call' = [call EXCEPT !.todo = todo]
                      ELSE /\ call' = [call EXCEPT !.todo = todo,
                                                   !.out = @ \o Audit(fv, lines, yc)]
                           /\ UNCHANGED fs
        /\ UNCHANGED <<yc, new_config, op, store, tags, commits, untracked>>

\* update: the report of a dry run, or self.to_json(config_path)
Persist ==
    /\ pc = "persist"
    /\ IF call.dryrun
       THEN /\ pc' = "done"
            /\ UNCHANGED <<store, untracked>>
       ELSE /\ \E order \in Orders(new_config.files) :
                  store' = [store EXCEPT ![call.config_path] =
                                Some(Encode(new_config, order))]
            \* a state file that did not exist is a new file the repository does not track
            /\ untracked' = IF store[call.config_path] = None
                            THEN untracked \cup {call.config_path}
                            ELSE untracked
            /\ pc' = IF call.git_tag_after THEN "tag_after" ELSE "done"
    /\ UNCHANGED <<yc, new_config, op, fs, tags, commits, call>>

\* a tag-after step without the dirty check
TagAfter_unchecked ==
    /\ pc = "tag_after"
    /\ LET file_paths == {fv.file_path : fv \in new_config.files}
                             \cup {DEFAULT_CONFIG_PATH}
           tag_string == get_templated_tag(new_config)
       IN IF store[DEFAULT_CONFIG_PATH] = None
          THEN Fail("FileNotFoundError") /\ UNCHANGED <<tags, commits, untracked>>
          ELSE /\ commits' = Append(commits,
                                    [message |-> get_templated_commit(new_config),
                                     paths |-> file_paths])
               /\ untracked' = untracked \ file_paths
               /\ IF tag_string \in tags
                  THEN Fail("VcsError") /\ UNCHANGED tags
                  ELSE /\ tags' = tags \cup {tag_string}
                       /\ pc' = "done"
                       /\ UNCHANGED call
    /\ UNCHANGED <<yc, new_config, op, store, fs>>

\* _tag_after: the dirty check, the commit of the tracked files and the state file,
\* the tag
TagAfter ==
    /\ pc = "tag_after"
    /\ LET file_paths  == {fv.file_path : fv \in new_config.files}
                              \cup {DEFAULT_CONFIG_PATH}
           extra_files == untracked \ file_paths
           tag_string  == get_templated_tag(new_config)
       IN IF extra_files # {}
          THEN Fail("YeyoDirtyRepoException") /\ UNCHANGED <<tags, commits, untracked>>
          \* repo.index.add([str(DEFAULT_CONFIG_PATH)]) of a file that does not exist
          ELSE IF store[DEFAULT_CONFIG_PATH] = None
          THEN Fail("FileNotFoundError") /\ UNCHANGED <<tags, commits, untracked>>
          ELSE /\ commits' = Append(commits,
                                    [message |-> get_templated_commit(new_config),
                                     paths |-> file_paths])
               /\ untracked' = untracked \ file_paths
               /\ IF tag_string \in tags
                  THEN Fail("VcsError") /\ UNCHANGED tags
                  ELSE /\ tags' = tags \cup {tag_string}
                       /\ pc' = "done"
                       /\ UNCHANGED call
    /\ UNCHANGED <<yc, new_config, op, store, fs>>

Next == Bump \/ TagBefore \/ RewriteFile \/ Persist \/ TagAfter

Spec == Init /\ [][Next]_vars

-----------------------------------------------------------------------------
(* Properties of update (Spec) *)

\* C1: with tag_before and without dry_run, the tag created in the tag-before step is
\* named by the tag template rendered with the version of the old state.
C1_TagBeforeNamesOldVersion ==
    [][(/\ pc = "tag_before"
        /\ call.git_tag_before /\ ~call.dryrun
        /\ pc' \in {"rewrite", "persist"})
          => tags' = tags \cup {Render(yc.tag_template, version_string(yc))}]_vars

\* a match template with each placeholder symbol replaced by the version string
RECURSIVE Substitute(_, _)
Substitute(template, v) ==
    IF template = <<>> THEN <<>>
    ELSE (IF Head(template) = YEYO_VERSION_TEMPLATE[1] THEN v ELSE <<Head(template)>>)
         \o Substitute(Tail(template), v)

Occurs(line, s, i) == i + Len(s) - 1 <= Len(line) /\ SubSeq(line, i, i + Len(s) - 1) = s
\* the occurrences of s in line from position pos on, scanning left to right, an
\* occurrence that overlaps the one before it left out
RECURSIVE Occurrences(_, _, _)
Occurrences(line, s, pos) ==
    IF pos + Len(s) - 1 > Len(line) THEN {}
    ELSE IF Occurs(line, s, pos) THEN {pos} \cup Occurrences(line, s, pos + Len(s))
    ELSE Occurrences(line, s, pos + 1)

\* out is line with each occurrence of s replaced by r and every other character kept
LineRewritten(line, out, s, r) ==
    LET sel        == Occurrences(line, s, 1)
        d          == Len(r) - Len(s)
        before(j)  == Cardinality({i \in sel : i < j})
        covered(j) == \E i \in sel : i <= j /\ j < i + Len(s)
    IN /\ Len(out) = Len(line) + Cardinality(sel) * d
       /\ \A i \in sel : SubSeq(out, i + before(i) * d, i + before(i) * d + Len(r) - 1) = r
       /\ \A j \in 1..Len(line) : ~covered(j) => out[j + before(j) * d] = line[j]
       /\ (\A i \in 1..Len(line) : ~Occurs(line, s, i)) => out = line

\* C9: rewrite exactness.  In an update that is no dry run, the pass of a binding
\* over its file replaces, in every line, each occurrence (left to right, without
\* overlap) of the match template rendered with the old version by the template
\* rendered with the new version; a line without the search text, and every other
\* file, is left as it was.
C9_RewriteExactness ==
    [][(/\ pc = "rewrite" /\ ~call.dryrun
        /\ pc' # "failed" /\ call'.todo # call.todo)
          => \E fv \in call.todo \ call'.todo :
                LET s   == Substitute(fv.match_template, version_string(yc))
                    r   == Substitute(fv.match_template, version_string(new_config))
                    old == fs[fv.file_path][1]
                    new == fs'[fv.file_path][1]
                IN /\ \A p \in Paths \ {fv.file_path} : fs'[p] = fs[p]
                   /\ fs'[fv.file_path] # None
                   /\ Len(new) = Len(old)
                   /\ \A i \in 1..Len(old) : LineRewritten(old[i], new[i], s, r)]_vars

\* the version file held the old version twice in its first line, and after the pass
\* of its binding it holds the new version twice
C9_Witness ==
    /\ pc = "persist" /\ ~call.dryrun
    /\ new_config.files = {VersionBinding}
    /\ new_config.version # yc.version
    /\ fs[VersionFile] =
          Some(<<version_string(new_config) \o version_string(new_config) \o NL, <<"x">>>>)

\* C10: a dry run mutates nothing.  Whatever tag_before and tag_after are, no step of
\* an update with dry_run set changes a tracked file, the state file, the tags or
\* the commits.
C10_DryRunMutatesNothing ==
    [][call'.dryrun => UNCHANGED <<fs, store, tags, commits>>]_vars

\* a dry run with both tag options that has printed a line it would replace and has
\* returned
C10_Witness ==
    /\ pc = "done" /\ call.dryrun
    /\ call.git_tag_before /\ call.git_tag_after
    /\ call.out # <<>>
    /\ new_config.version # yc.version
    /\ tags = {} /\ commits = <<>>

-----------------------------------------------------------------------------
(* Properties of the transitions as calls on an object (SpecFiles) *)

Transitions ==
    {"bump_major", "bump_minor", "bump_patch", "bump_prerelease", "finalize",
     "add_file", "remove_file"}

\* C16: immutability.  Each transition returns its result and leaves the receiver as
\* it was: its version, its templates and its set of bindings.  After
\* new = s.add_file(p, t), s.files is the set it was and new.files is that set plus
\* the binding (p, t).
C16_Immutability ==
    [][op'.name \in Transitions =>
         /\ yc' = new_config
         /\ yc'.version = new_config.version
         /\ yc'.tag_template = new_config.tag_template
         /\ yc'.commit_template = new_config.commit_template
         /\ yc'.files = new_config.files
         /\ op'.name = "add_file" =>
               new_config'.files =
                   new_config.files \cup {FileVersion(op'.path, op'.template)}]_vars

\* add_file of a new path returned a registry of two bindings and the receiver still
\* has one
C16_Witness ==
    /\ op.name = "add_file" /\ op.path = SetupFile
    /\ yc.files = {VersionBinding}
    /\ new_config.files = {VersionBinding, FileVersion(SetupFile, PrefixTemplate)}
    /\ yc.version = new_config.version

\* C17: remove_file(p) returns a state without a binding of path p that keeps every
\* binding of another path, and the version and templates; on a receiver without a
\* binding of p it returns a state equal to the receiver, so a second remove_file(p)
\* returns what the first returned.
C17_RemoveFile ==
    op.name = "remove_file" =>
        /\ \A fv \in new_config.files : fv.file_path # op.path
        /\ \A fv \in yc.files : fv.file_path # op.path => fv \in new_config.files
        /\ new_config.files \subseteq yc.files
        /\ new_config.version = yc.version
        /\ new_config.tag_template = yc.tag_template
        /\ new_config.commit_template = yc.commit_template
        /\ (\A fv \in yc.files : fv.file_path # op.path) =>
              (new_config = yc /\ ConfigEq(new_config, yc))
        /\ (op.prev = "remove_file" /\ op.prev_path = op.path) => new_config = yc

\* remove_file of the same path twice on a registry that bound it: the second call
\* returned the registry the first returned, which still binds the other path
C17_Witness ==
    /\ op.name = "remove_file" /\ op.prev = "remove_file"
    /\ op.path = VersionFile /\ op.prev_path = VersionFile
    /\ new_config = yc
    /\ new_config.files = {FileVersion(SetupFile, PrefixTemplate)}

\* C19: bump frame.  The state returned by bump_major, bump_minor, bump_patch,
\* bump_prerelease or finalize has the tag template, the commit template and the set
\* of bindings of the receiver; written to the state file and loaded, it tracks the
\* same files.
C19_BumpFrame ==
    op.name \in Transitions \ {"add_file", "remove_file"} =>
        /\ new_config.tag_template = yc.tag_template
        /\ new_config.commit_template = yc.commit_template
        /\ new_config.files = yc.files
        /\ \A order \in Orders(new_config.files) :
              Decode(Encode(new_config, order)).files = yc.files

\* a prerelease bump with a token of a state with its own templates and two bindings,
\* one added just before
C19_Witness ==
    /\ op.name = "bump_prerelease" /\ op.token # None /\ op.prev = "add_file"
    /\ yc.tag_template = PrefixTagTemplate /\ yc.commit_template = BumpCommitTemplate
    /\ Cardinality(yc.files) = 2
    /\ new_config.version # yc.version
    /\ new_config.files = yc.files /\ new_config.tag_template = yc.tag_template

-----------------------------------------------------------------------------
(* Properties of update, continued (Spec) *)

\* the order of the steps of update: each step is followed by a later one or by the
\* exception
StepOrder ==
    {<<"idle", "tag_before">>,
     <<"tag_before", "rewrite">>, <<"tag_before", "persist">>, <<"tag_before", "failed">>,
     <<"rewrite", "rewrite">>, <<"rewrite", "persist">>, <<"rewrite", "failed">>,
     <<"persist", "tag_after">>, <<"persist", "done">>,
     <<"tag_after", "done">>, <<"tag_after", "failed">>}

\* C11: fail-stop ordering.  In an update that is no dry run the steps come in the
\* order tag-before, rewrite, persist, tag-after: tags change only in the two tag
\* steps, tracked files only in rewrite, the state file only in persist, commits only
\* in tag-after.  Once a step has raised no later step runs: after a failure of
\* tag-before the tracked files and the state file are as update found them, after a
\* failure of rewrite the state file is the old one and there is no new commit and no
\* tag other than the one of tag-before.
C11_FailStopOrdering ==
    [][~call'.dryrun =>
         /\ call.error = "none"
         /\ <<pc, pc'>> \in StepOrder
         /\ fs' # fs => pc = "rewrite"
         /\ store' # store => pc = "persist"
         /\ commits' # commits => pc = "tag_after"
         /\ tags' # tags => pc \in {"tag_before", "tag_after"}
         /\ (pc' = "failed" /\ pc = "tag_before") =>
               /\ fs' = call.before.fs /\ store' = call.before.store
               /\ tags' = call.before.tags /\ commits' = call.before.commits
         /\ (pc' = "failed" /\ pc = "rewrite") =>
               /\ store' = call.before.store /\ commits' = call.before.commits
               /\ tags' \subseteq call.before.tags \cup {get_templated_tag(new_config)}
               /\ call.git_tag_before = (tags' # call.before.tags)]_vars

\* an update with both tag options raised in rewrite, on a missing tracked file, after
\* tag-before made its tag and another tracked file was rewritten
C11_Witness ==
    /\ pc = "failed" /\ call.at = "rewrite" /\ call.error = "FileNotFoundError"
    /\ ~call.dryrun /\ call.git_tag_before /\ call.git_tag_after
    /\ tags # call.before.tags
    /\ fs # call.before.fs
    /\ store = call.before.store /\ commits = <<>>

\* C12: dirty-repository detection.  When tag-after is reached and the repository has
\* an untracked file that is neither the path of a tracked file nor the state file,
\* the step raises the dirty-repository error and makes no commit and no tag; the
\* tracked files stay as rewrite left them and the state file holds the new state.
C12_DirtyRepo ==
    [][(/\ pc = "tag_after"
        /\ untracked \ ({fv.file_path : fv \in new_config.files} \cup {call.config_path})
              # {})
          => /\ pc' = "failed" /\ call'.error = "YeyoDirtyRepoException"
             /\ commits' = commits /\ tags' = tags
             /\ fs' = fs /\ store' = store
             /\ store'[call.config_path] # None
             /\ Decode(store'[call.config_path][1]) = new_config]_vars

\* an update with tag_after raised the dirty-repository error after its files were
\* rewritten and the new state was written
C12_Witness ==
    /\ pc = "failed" /\ call.at = "tag_after"
    /\ call.error = "YeyoDirtyRepoException"
    /\ OtherFile \in untracked
    /\ commits = <<>> /\ tags = call.before.tags
    /\ fs # call.before.fs /\ store # call.before.store
    /\ Decode(store[call.config_path][1]).version = new_config.version
    /\ new_config.version # yc.version

C15_TagAfter ==
    [][(/\ pc = "tag_after"
        /\ untracked \subseteq {fv.file_path : fv \in new_config.files}
                                  \cup {call.config_path})
          => \E tag \in {Render(new_config.tag_template, version_string(new_config))} :
                /\ ~call.dryrun /\ call.git_tag_after
                /\ store[call.config_path] # None
                /\ Decode(store[call.config_path][1]) = new_config
                /\ commits' = Append(commits,
                       [message |-> Render(new_config.commit_template,
                                           version_string(new_config)),
                        paths |-> {fv.file_path : fv \in new_config.files}
                                     \cup {call.config_path}])
                /\ tag \notin tags => (tags' = tags \cup {tag} /\ pc' = "done")
                /\ tag \in tags => (tags' = tags /\ pc' = "failed")
                /\ UNCHANGED <<fs, store>>]_vars

\* bump prerelease --git-tag-after on 0.0.0-dev.1, the state file and VERSION still
\* untracked: one commit and the tag 0.0.0-dev.2
C15_Witness ==
    /\ pc = "done" /\ call.git_tag_after /\ ~call.git_tag_before /\ ~call.dryrun
    /\ op.name = "prerelease" /\ op.token = None
    /\ version_string(yc) = STARTING_VERSION
    /\ call.before.tags = {} /\ DEFAULT_CONFIG_PATH \in call.before.untracked
    /\ tags = {<<"0", ".", "0", ".", "0", "-", "d", "e", "v", ".", "2">>}
    /\ Len(commits) = 1
    /\ commits[1].message = <<"0", ".", "0", ".", "0", "-", "d", "e", "v", ".", "2">>
    /\ commits[1].paths = {VersionFile, DEFAULT_CONFIG_PATH}
    /\ untracked = {}

-----------------------------------------------------------------------------
(* SpecRuns: bump commands in a row on a project whose tracked files hold the   *)
(* persisted version, none a dry run and none with a tag option, each started   *)
(* when the one before has returned; the process may die between the rewrite of *)
(* the files and the write of the state file, and the command is then run       *)
(* again.                                                                       *)

\* the text a binding searches for in a project at version v
Rendering(fv, v) == PyReplace(fv.match_template, YEYO_VERSION_TEMPLATE, VersionStr(v))

\* every tracked file exists and holds the version rendered by its binding
Consistent(c, files) ==
    \A fv \in c.files :
        /\ files[fv.file_path] # None
        /\ \E i \in DOMAIN files[fv.file_path][1] :
              Contains(files[fv.file_path][1][i], Rendering(fv, c.version))

InitRuns ==
    /\ \E v \in ProjectVersions, r \in ProjectRegistries :
          /\ yc = YeyoConfig(v, DEFAULT_TAG_TEMPLATE, DEFAULT_COMMIT_TEMPLATE, r)
          /\ \E order \in Orders(r) :
                store = [p \in ConfigPaths |-> Some(Encode(yc, order))]
          /\ \E content \in VersionFileContents(v) :
                fs = [p \in Paths |-> IF p = VersionFile THEN Some(content)
                                      ELSE Some(SetupFileContent(v))]
          /\ Consistent(yc, fs)
    /\ new_config = yc
    /\ op = NoOp
    /\ tags = {}
    /\ commits = <<>>
    /\ untracked = {}
    /\ pc = "idle"
    /\ call = NoCall

\* the --prerel/--no-prerel option on the command line: absent, --prerel, --no-prerel
PrerelFlags == {None, Some(TRUE), Some(FALSE)}

\* click.option("--prerel/--no-prerel", default=True): the value of kwargs["prerel"]
with_prerel(flag) == IF flag = None THEN TRUE ELSE flag[1]

\* the command lines of the bump group
CommandLines ==
    [name : {"major", "minor", "patch"}, prerel : PrerelFlags, token : {None}]
    \cup [name : {"prerelease"}, prerel : {None}, token : UpdateTokens]
    \cup [name : {"finalize"}, prerel : {None}, token : {None}]

\* the command and the option values click hands to it
KindOf(argv) ==
    [argv EXCEPT !.prerel = IF argv.name \in {"major", "minor", "patch"}
                            THEN with_prerel(argv.prerel)
                            ELSE argv.name = "prerelease"]

\* a bump command: the state file is loaded, the version bumped, update is entered
Command(argv, rerun, expected) ==
    /\ store[DEFAULT_CONFIG_PATH] # None
    /\ \E old \in {Decode(store[DEFAULT_CONFIG_PATH][1])}, kind \in {KindOf(argv)} :
          \E new \in {Bumped(old, kind)} :
             /\ yc' = old
             /\ new_config' = new
             /\ call' = [NoCall EXCEPT !.todo = new.files, !.before = Disk,
                                       !.kind = kind, !.rerun = rerun,
                                       !.expected = expected, !.argv = argv]
    /\ op' = [Did(argv.name) EXCEPT !.token = argv.token, !.n = op.n + 1]
    /\ pc' = "tag_before"
    /\ UNCHANGED <<store, fs, tags, commits, untracked>>

\* the next command of the row, after the one before has returned
RunCommand ==
    \E argv \in CommandLines :
        /\ pc \in {"idle", "done"}
        /\ op.n < MaxCommands
        /\ ~call.rerun
        /\ Command(argv, FALSE, <<>>)

\* the process dies after _update_files has returned and before to_json is called
Crash ==
    /\ pc = "persist"
    /\ ~call.rerun
    /\ pc' = "crashed"
    /\ call' = [call EXCEPT !.expected = fs]
    /\ UNCHANGED <<yc, new_config, op, store, fs, tags, commits, untracked>>

\* the command that crashed is run again
Rerun ==
    /\ pc = "crashed"
    /\ Command(call.argv, TRUE, call.expected)

NextRuns == RunCommand \/ TagBefore \/ RewriteFile \/ Persist \/ Crash \/ Rerun

SpecRuns == InitRuns /\ [][NextRuns]_vars

\* C14: recovery by re-running.  After a crash between rewrite and persist, the same
\* bump command run again from the persisted old state ends with the state file at
\* the new version and every tracked file as the crashed run left it, which is what an
\* uninterrupted run produces; for every bump kind.
C14_RerunRecovers ==
    (pc = "done" /\ call.rerun) =>
        /\ Decode(store[DEFAULT_CONFIG_PATH][1]).version = new_config.version
        /\ fs = call.expected

\* C18: state/file consistency.  After each command of a row of completed commands,
\* none re-run after a crash, the persisted version is the version the command bumped
\* to and every tracked file holds that version string.
C18_StateFileConsistency ==
    (pc = "done" /\ ~call.rerun) =>
        \E persisted \in {Decode(store[DEFAULT_CONFIG_PATH][1])} :
            /\ persisted.version = new_config.version
            /\ persisted.version = Bumped(yc, call.kind).version
            /\ persisted.files = yc.files
            /\ \A fv \in persisted.files :
                  /\ fs[fv.file_path] # None
                  /\ \E i \in DOMAIN fs[fv.file_path][1] :
                        Contains(fs[fv.file_path][1][i], version_string(persisted))

\* the second command of a row has returned: a release was made a prerelease and the
\* prerelease then finalized, and two files are tracked
C18_Witness ==
    /\ pc = "done" /\ ~call.rerun /\ op.n = 2
    /\ op.name = "finalize" /\ op.prev = "prerelease"
    /\ Cardinality({fv.file_path : fv \in new_config.files}) = 2
    /\ new_config.version # yc.version
    /\ Decode(store[DEFAULT_CONFIG_PATH][1]).version = new_config.version

\* C22: bump major, minor and patch add a prerelease only when --prerel is on the
\* command line.  Without the option the new version is a release (bump minor on
\* 0.0.0-dev.1 gives 0.1.0), with --prerel it is its first prerelease (0.1.0-dev.1).
C22_PrerelOnlyWhenInvoked ==
    (pc # "idle" /\ call.argv # <<>> /\ call.argv.name \in {"major", "minor", "patch"}) =>
        /\ (new_config.version.prerelease # None) <=> (call.argv.prerel = Some(TRUE))
        /\ (call.argv.name = "minor" /\ version_string(yc) = STARTING_VERSION) =>
              version_string(new_config) =
                  IF call.argv.prerel = Some(TRUE)
                  THEN <<"0", ".", "1", ".", "0", "-", "d", "e", "v", ".", "1">>
                  ELSE <<"0", ".", "1", ".", "0">>

-----------------------------------------------------------------------------
(* Properties of an update with both tag options (Spec) *)

\* C24: in one update with git_tag_before and git_tag_after, not a dry run, on a clean
\* repository without tags, the two tag steps ask for different tag names: the second
\* tag is never refused for its name, and the update that returns has made two tags.
C24_TwoTags ==
    (/\ pc # "idle"
     /\ call.git_tag_before /\ call.git_tag_after /\ ~call.dryrun
     /\ call.before.tags = {} /\ call.before.untracked = {}) =>
        /\ ~(pc = "failed" /\ call.at = "tag_after" /\ call.error = "VcsError")
        /\ pc = "done" => Cardinality(tags) = 2

-----------------------------------------------------------------------------
(* Properties of the dry run (Spec) *)

\* the lines among lines that hold the search text of fv, in order
RECURSIVE LinesWithSearchText(_, _, _)
LinesWithSearchText(fv, lines, v) ==
    IF lines = <<>> THEN <<>>
    ELSE (IF Contains(Head(lines), Rendering(fv, v)) THEN <<Head(lines)>> ELSE <<>>)
         \o LinesWithSearchText(fv, Tail(lines), v)

\* C20: in a dry run the pass of a binding over its file emits one audit record for
\* each line that holds the search text of the binding (its match template rendered
\* with the old version) and none for any other line, so none for a line that holds
\* the old version string without the rendered template.
C20_AuditIffSearchText ==
    [][(/\ pc = "rewrite" /\ call.dryrun
        /\ pc' # "failed" /\ call'.todo # call.todo)
          => \E fv \in call.todo \ call'.todo :
                \E found \in {LinesWithSearchText(fv, fs[fv.file_path][1], yc.version)} :
                   /\ Len(call'.out) = Len(call.out) + Len(found)
                   /\ \A i \in DOMAIN found :
                         /\ call'.out[Len(call.out) + i].line = found[i]
                         /\ call'.out[Len(call.out) + i].file = fv.file_path]_vars

-----------------------------------------------------------------------------
(* Properties of an update over several bindings of one file (Spec) *)

\* the number of characters of a match template before its placeholder
PlaceholderOffset(template) == IndexOf(template, YEYO_VERSION_TEMPLATE[1]) - 1

\* the occurrence of version v at position i of line is the version of a rendering
\* of one of the bindings
CoveredAt(line, bindings, v, i) ==
    \E fv \in bindings :
        LET off == PlaceholderOffset(fv.match_template)
        IN off >= 0 /\ i - off >= 1 /\ Occurs(line, Rendering(fv, v), i - off)

\* line with the n characters at each position of sel replaced by r
RECURSIVE ReplaceAt(_, _, _, _, _)
ReplaceAt(line, sel, pos, n, r) ==
    IF pos > Len(line) THEN <<>>
    ELSE IF pos \in sel THEN r \o ReplaceAt(line, sel, pos + n, n, r)
    ELSE <<line[pos]>> \o ReplaceAt(line, sel, pos + 1, n, r)

\* line with each old version that a binding renders replaced once by the new one
AppliedOnce(line, bindings, v1, v2) ==
    ReplaceAt(line,
              {i \in Occurrences(line, VersionStr(v1), 1) : CoveredAt(line, bindings, v1, i)},
              1, Len(VersionStr(v1)), VersionStr(v2))

\* C26: single application per update.  When the rewrite of an update that is not a
\* dry run has ended, each line of each tracked file is the line update found with the
\* old version of each rendering replaced once by the new version, also when several
\* bindings point at the file and the new version string contains the old one.
C26_SingleApplication ==
    (pc \in {"persist", "tag_after", "done"} /\ ~call.dryrun) =>
        \A p \in {fv.file_path : fv \in new_config.files} :
            LET bindings == {fv \in new_config.files : fv.file_path = p}
                before   == call.before.fs[p][1]
            IN /\ fs[p] # None
               /\ Len(fs[p][1]) = Len(before)
               /\ \A i \in DOMAIN before :
                     fs[p][1][i] = AppliedOnce(before[i], bindings, yc.version,
                                               new_config.version)

-----------------------------------------------------------------------------
(* SpecApi: update called as a method with a config_path of the caller's        *)
(* choice, as test_config.py does: the default path or another one.  The state  *)
(* file at either path may exist before the call, tracked by git or not.        *)

TestConfigPath == PathOf(<<"test.json">>)
ApiConfigPaths == {DEFAULT_CONFIG_PATH, TestConfigPath}

InitApi ==
    /\ \E v \in ProjectVersions, r \in {{}, {VersionBinding}} :
          /\ yc = YeyoConfig(v, DEFAULT_TAG_TEMPLATE, DEFAULT_COMMIT_TEMPLATE, r)
          /\ fs = [p \in Paths |-> IF p = VersionFile
                                    THEN Some(<<VersionStr(v) \o NL>>)
                                    ELSE None]
          /\ store \in [ApiConfigPaths -> {None, Some(Encode(yc, CHOOSE o \in Orders(r) : TRUE))}]
    /\ new_config = yc
    /\ op = NoOp
    /\ tags = {}
    /\ commits = <<>>
    /\ untracked \in SUBSET ({OtherFile} \cup {p \in ApiConfigPaths : store[p] # None})
    /\ pc = "idle"
    /\ call = NoCall

\* new_config.update(yc, config_path, dryrun, git_tag_before, git_tag_after), new_config
\* a bump of yc
Update ==
    \E kind \in Kinds, config_path \in ApiConfigPaths,
       dryrun \in BOOLEAN, tag_before \in BOOLEAN, tag_after \in BOOLEAN :
        /\ pc = "idle"
        /\ \E new \in {Bumped(yc, kind)} :
              /\ new_config' = new
              /\ call' = [NoCall EXCEPT !.dryrun = dryrun,
                                        !.git_tag_before = tag_before,
                                        !.git_tag_after = tag_after,
                                        !.config_path = config_path,
                                        !.todo = new.files,
                                        !.before = Disk,
                                        !.kind = kind]
        /\ op' = [Did("update") EXCEPT !.token = kind.token]
        /\ pc' = "tag_before"
        /\ UNCHANGED <<yc, store, fs, tags, commits, untracked>>

NextApi == Update \/ TagBefore \/ RewriteFile \/ Persist \/ TagAfter

SpecApi == InitApi /\ [][NextApi]_vars

\* C21: the state file of tag-after is the one persist wrote.  Whatever config_path
\* update was given, a tag-after step in a repository whose untracked files are all
\* tracked-file paths or that state file does not raise the dirty-repository error,
\* and the commit it makes holds that state file.
C21_StateFileOfTagAfter ==
    [][(/\ pc = "tag_after"
        /\ untracked \subseteq {fv.file_path : fv \in new_config.files}
                                  \cup {call.config_path})
          => /\ call'.error # "YeyoDirtyRepoException"
             /\ Len(commits') = Len(commits) + 1
             /\ call.config_path \in commits'[Len(commits')].paths]_vars

-----------------------------------------------------------------------------
(* SpecCli: the command line from a directory without a state file: init, the     *)
(* callbacks of the groups bump, files and git, and a read of the state file.     *)

STARTING_FILE == PathOf(<<"VERSION">>)

\* the attributes of class YeyoConfig
YeyoConfigAttributes ==
    {"__init__", "__repr__", "__eq__", "remove_file", "add_file", "string_files",
     "from_version_string", "from_json", "to_json", "_update_files", "update",
     "get_templated_commit", "get_templated_tag", "_tag_after", "_tag_repo",
     "tag_repo", "bump_major", "bump_minor", "bump_patch", "bump_build",
     "bump_prerelease", "finalize", "version_string"}

\* YeyoConfig.<name>: the lookup of a class attribute
getattr_error(name) == IF name \in YeyoConfigAttributes THEN "none" ELSE "AttributeError"

CliGroups == {"bump", "files", "git"}
CliResting == {"idle", "done", "failed"}

\* the exit code of the process whose command has ended
exit_code == IF pc = "failed" THEN 1 ELSE 0

InitCli ==
    /\ yc = YeyoConfig(parse_version_info(STARTING_VERSION), DEFAULT_TAG_TEMPLATE,
                       DEFAULT_COMMIT_TEMPLATE, {})
    /\ new_config = yc
    /\ op = NoOp
    /\ store = [p \in ConfigPaths |-> None]
    /\ fs = [p \in Paths |-> IF p = VersionFile THEN Some(<<STARTING_VERSION>>) ELSE None]
    /\ tags = {}
    /\ commits = <<>>
    /\ untracked = {}
    /\ pc = "idle"
    /\ call = NoCall

\* yeyo init [--starting-version V] [-t T] [-c C] [--default]
CliInit ==
    \E starting_version \in {VersionStr(v) : v \in DiagonalVersions},
       tag_template \in {DEFAULT_TAG_TEMPLATE, PrefixTagTemplate},
       commit_template \in {DEFAULT_COMMIT_TEMPLATE, BumpCommitTemplate},
       default \in BOOLEAN :
        /\ pc \in CliResting
        /\ \E p \in {YeyoConfig(parse_version_info(starting_version), tag_template,
                                 commit_template, {})} :
              \E q \in {IF default THEN add_file(p, STARTING_FILE, YEYO_VERSION_TEMPLATE)
                         ELSE p} :
                 /\ \E order \in Orders(q.files) :
                       store' = [store EXCEPT ![DEFAULT_CONFIG_PATH] = Some(Encode(q, order))]
                 /\ yc' = q
                 /\ new_config' = q
        /\ untracked' = IF store[DEFAULT_CONFIG_PATH] = None
                        THEN untracked \cup {DEFAULT_CONFIG_PATH}
                        ELSE untracked
        /\ op' = Did("init")
        /\ pc' = "done"
        /\ call' = NoCall
        /\ UNCHANGED <<fs, tags, commits>>

\* yeyo bump ..., yeyo files ..., yeyo git ...: the callback of the group, which click
\* runs before the command of the group
CliGroup ==
    \E g \in CliGroups :
        /\ pc \in CliResting
        /\ \E error \in {getattr_error("from_yaml")} :
              /\ call' = [NoCall EXCEPT !.error = error, !.at = g]
              /\ pc' = IF error = "none" THEN "group" ELSE "failed"
        /\ op' = Did(g)
        /\ UNCHANGED <<yc, new_config, store, fs, tags, commits, untracked>>

\* YeyoConfig.from_json(Path(DEFAULT_CONFIG_PATH)) after a command
CliReadBack ==
    /\ pc \in {"done", "failed"}
    /\ op.name # "from_json"
    /\ store[DEFAULT_CONFIG_PATH] # None
    /\ new_config' = Decode(store[DEFAULT_CONFIG_PATH][1])
    /\ op' = Did("from_json")
    /\ UNCHANGED <<yc, store, fs, tags, commits, untracked, pc, call>>

NextCli == CliInit \/ CliGroup \/ CliReadBack

SpecCli == InitCli /\ [][NextCli]_vars

\* C23: the state file init wrote can be loaded by the groups bump, files and git.
\* After init, the callback of each group loads the state without error, the command
\* ends with exit code 0, and from_json then reads the state init wrote.
C23_GroupsLoadState ==
    /\ (op.name \in CliGroups /\ store[DEFAULT_CONFIG_PATH] # None) =>
           (call.error = "none" /\ exit_code = 0)
    /\ (op.name = "from_json" /\ op.prev \in CliGroups \cup {"init"}) =>
           new_config = yc

====
